---- MODULE Spec2Model ----
(***************************************************************************)
(* Post resource lifecycle of lil-saplings: the Express middleware chains  *)
(* of routes/posts.js, their handlers, the Mongo record store, the         *)
(* Cloudinary asset store and the express-rate-limit counters.             *)
(*                                                                         *)
(* Every awaited call of a handler is one step of the request that runs    *)
(* it; between two awaits of one request any other request may run, the    *)
(* stores may fail, and the process may crash.                             *)
(***************************************************************************)
EXTENDS Integers, Sequences, FiniteSets, TLC

\* ---------------------------------------------------------------- bounds
\* Requests issued in one behaviour.
MaxReqs == 2
\* Requests in flight at the same time.
NumSlots == 2

Slots == 1..NumSlots
\* A path identifier that is no syntactically valid ObjectId.
BadId == 0
\* Client addresses of the lifecycle specification.
Addrs == {"a1"}

\* ------------------------------------------------------ program constants
apiMax == 100
authMax == 20
uploadMax == 50

UploadFolder == "blog-uploads"

\* ------------------------------------------------------------- the state
VARIABLES
  posts,      \* record store: live id -> [image |-> url]
  nextId,     \* next identifier the record store assigns
  assets,     \* asset store: sequence over public ids, "stored" or "destroyed"
  hits,       \* rate counters: class -> address -> hits in the current window
  admitted,   \* class -> address -> requests let through in the current window
  req,        \* the request each slot is serving
  issued,     \* requests issued so far
  deletedOk,  \* identifiers for which a Delete has answered 200
  cachedDb    \* the process-wide cached store connection of server.js

vars == <<posts, nextId, assets, hits, admitted, req, issued, deletedOk, cachedDb>>

\* ------------------------------------------------------------ image URLs
\* PostSchema.image default.
NoImage == [folder |-> "", name |-> 0, ext |-> ""]

\* The URL Cloudinary returns for the blob stored under folder/name.
UrlOf(n) == [folder |-> UploadFolder, name |-> n, ext |-> "jpg"]

\* deleteImage: the last path segment up to its first '.', under blog-uploads.
PublicIdOf(url) == <<UploadFolder, url.name>>

\* cloudinary.uploader.destroy(publicId) on the asset store.
Destroyed(as, pid) ==
  IF pid[1] = UploadFolder /\ pid[2] \in DOMAIN as
  THEN [as EXCEPT ![pid[2]] = "destroyed"]
  ELSE as

\* ------------------------------------------------------- middleware chains
\* server.js mounts the limiter of the class before the router; the router
\* then runs the route's own middleware in the order written.
\* router.post('/') with the upload ahead of the gate.
PostChainUploadFirst ==
  <<"apiLimiter", "upload", "auth", "uploadLimiter", "validate", "handler">>
\* The create route with the handler placed before the upload.
PostChainSaveFirst ==
  <<"apiLimiter", "auth", "uploadLimiter", "validate", "handler", "upload">>
PostChain ==
  <<"apiLimiter", "auth", "uploadLimiter", "upload", "validate", "handler">>
\* router.put('/:id') with the upload limiter behind the upload and validation.
PutChainLimiterLast ==
  <<"apiLimiter", "auth", "upload", "validate", "uploadLimiter", "handler">>
PutChain ==
  <<"apiLimiter", "auth", "uploadLimiter", "upload", "validate", "handler">>
DeleteChain == <<"apiLimiter", "auth", "validate", "handler">>
GetChain == <<"apiLimiter", "validate", "handler">>
LoginChain == <<"authLimiter", "handler">>

Ops == {"create", "update", "delete", "get", "login"}

Chain(op) ==
  CASE op = "create" -> PostChain
    [] op = "update" -> PutChain
    [] op = "delete" -> DeleteChain
    [] op = "get" -> GetChain
    [] op = "login" -> LoginChain

NoResp == [status |-> 0, by |-> "", post |-> "none"]

Idle ==
  [op |-> "idle", addr |-> "a1", id |-> BadId, idx |-> 0, hpc |-> "",
   file |-> NoImage, existing |-> NoImage, log |-> <<>>, charged |-> {},
   resp |-> NoResp]

Busy(r) == req[r].op # "idle" /\ req[r].resp = NoResp
\* res.json() ends a request at once: no other step runs between the response
\* being written and its slot being free again.
Flushed == \A r \in Slots : req[r].resp = NoResp
Stage(r) == IF Busy(r) /\ Flushed THEN Chain(req[r].op)[req[r].idx] ELSE ""
\* The stages a request has entered.
Reached(q) ==
  IF q.op = "idle" THEN {} ELSE {Chain(q.op)[i] : i \in 1..q.idx}

Pass(q) == [q EXCEPT !.idx = @ + 1]
Respond(q, status, by, post) ==
  [q EXCEPT !.resp = [status |-> status, by |-> by, post |-> post]]

\* ------------------------------------------------------------------ Init
Classes == {"general", "authentication", "upload"}

\* The stores are empty, or hold what one Create with an image has left.
InitStores ==
  \/ /\ posts = <<>>
     /\ nextId = 1
     /\ assets = <<>>
  \/ /\ posts = <<[image |-> UrlOf(1)]>>
     /\ nextId = 2
     /\ assets = <<"stored">>

Init ==
  /\ InitStores
  /\ hits = [c \in Classes |-> [a \in Addrs |-> 0]]
  /\ admitted = hits
  /\ req = [r \in Slots |-> Idle]
  /\ issued = 0
  /\ deletedOk = {}
  /\ cachedDb = "ready"

\* --------------------------------------------------------------- arrival
Arrive(r) ==
  /\ Flushed
  /\ req[r].op = "idle"
  /\ \A s \in Slots : s < r => req[s].op # "idle"
  /\ issued < MaxReqs
  \* The path names an identifier the store has assigned, the one it assigns
  \* next, or no identifier at all.
  /\ \E op \in Ops, a \in Addrs, id \in (1..nextId) \cup {BadId} :
       /\ (op \in {"create", "login"} => id = BadId)
       /\ req' = [req EXCEPT ![r] =
                    [Idle EXCEPT !.op = op, !.addr = a, !.id = id, !.idx = 1]]
  /\ issued' = issued + 1
  /\ UNCHANGED <<posts, nextId, assets, hits, admitted, deletedOk, cachedDb>>


\* ---------------------------------------------------- rate admission control
\* express-rate-limit, memory store: one synchronous increment per request,
\* keyed by address; the request is refused once its own hit exceeds max.
Incremented(n) == n + 1

\* The comparison off by one: the max-th request is refused already.
OverLimitOffByOne(total, max) == total >= max
OverLimit(total, max) == total > max

Limiter(r, stage, class, max) ==
  /\ Stage(r) = stage
  /\ LET a == req[r].addr
         total == Incremented(hits[class][a])
         q == [req[r] EXCEPT !.charged = @ \cup {class}]
     IN /\ hits' = [hits EXCEPT ![class][a] = total]
        /\ admitted' = [admitted EXCEPT ![class][a] =
                           IF OverLimit(total, max) THEN @ ELSE @ + 1]
        /\ req' = [req EXCEPT ![r] =
                     IF OverLimit(total, max)
                     THEN Respond(q, 429, stage, "none")
                     ELSE Pass(q)]
  /\ UNCHANGED <<posts, nextId, assets, issued, deletedOk, cachedDb>>

ApiLimiter(r) == Limiter(r, "apiLimiter", "general", apiMax)
AuthLimiter(r) == Limiter(r, "authLimiter", "authentication", authMax)
UploadLimiter(r) == Limiter(r, "uploadLimiter", "upload", uploadMax)

\* The window of one address and class runs out (a step of the limiter's
\* specification; the lifecycle never depends on how full a window is).
WindowReset(c, a) ==
  /\ Flushed
  /\ hits[c][a] > 0
  /\ hits' = [hits EXCEPT ![c][a] = 0]
  /\ admitted' = [admitted EXCEPT ![c][a] = 0]
  /\ UNCHANGED <<posts, nextId, assets, req, issued, deletedOk, cachedDb>>

\* --------------------------------------------------------- authorization gate
\* The credential is verified and the request passes, or it is answered 401.
Auth(r) ==
  /\ Stage(r) = "auth"
  /\ \E valid \in BOOLEAN :
       req' = [req EXCEPT ![r] =
                 IF valid THEN Pass(@) ELSE Respond(@, 401, "auth", "none")]
  /\ UNCHANGED <<posts, nextId, assets, hits, admitted, issued, deletedOk, cachedDb>>

\* ------------------------------------------------- error handler, server.js
\* The errors the upload hands to next(): the fileFilter's Error, multer's
\* LIMIT_FILE_SIZE error, and the storage engine's failure.  None carries a
\* status (0 stands for undefined).
FilterError == [name |-> "Error", code |-> "", status |-> 0]
SizeError == [name |-> "MulterError", code |-> "LIMIT_FILE_SIZE", status |-> 0]
StorageError == [name |-> "Error", code |-> "", status |-> 0]

\* The status the application's error handler answers with.
ErrorStatus(error) ==
  CASE error.name = "ValidationError" -> 400
    [] error.name \in {"JsonWebTokenError", "TokenExpiredError"} -> 401
    [] error.code = "11000" -> 400
    [] OTHER -> IF error.status # 0 THEN error.status ELSE 500

\* ------------------------------------------------------ upload.single('image')
\* multer with the Cloudinary storage engine: an attached file that passes the
\* fileFilter and the size limit is stored in the asset store while the body
\* is parsed; a file of a wrong type or over the limit, or a failed upload,
\* goes to the error handler of server.js.
UploadSingle(r) ==
  /\ Stage(r) = "upload"
  /\ \E file \in {"none", "image", "badtype", "toolarge"}, stored \in BOOLEAN :
       /\ (file # "image" => stored)
       /\ CASE file = "none" ->
                 /\ req' = [req EXCEPT ![r] = Pass(@)]
                 /\ UNCHANGED assets
            [] file = "badtype" ->
                 /\ req' = [req EXCEPT ![r] =
                              Respond(@, ErrorStatus(FilterError), "fileFilter", "none")]
                 /\ UNCHANGED assets
            [] file = "toolarge" ->
                 /\ req' = [req EXCEPT ![r] =
                              Respond(@, ErrorStatus(SizeError), "fileFilter", "none")]
                 /\ UNCHANGED assets
            [] file = "image" /\ ~stored ->
                 /\ req' = [req EXCEPT ![r] =
                              Respond(@, ErrorStatus(StorageError), "upload", "none")]
                 /\ UNCHANGED assets
            [] file = "image" /\ stored ->
                 /\ assets' = Append(assets, "stored")
                 /\ req' = [req EXCEPT ![r] =
                              Pass([@ EXCEPT !.file = UrlOf(Len(assets) + 1),
                                             !.log = Append(@, "upload")])]
  /\ UNCHANGED <<posts, nextId, hits, admitted, issued, deletedOk, cachedDb>>

\* --------------------------------------------------------- validation layer
\* The route's validators and validate(): 400 with the error map, or next().
\* The body's fields are within their bounds or not; a path identifier is a
\* valid ObjectId or not.
IdValid(id) == id # BadId

Validate(r) ==
  /\ Stage(r) = "validate"
  /\ \E bodyOk \in BOOLEAN :
       /\ (req[r].op \in {"delete", "get"} => bodyOk)
       /\ LET idOk == req[r].op = "create" \/ IdValid(req[r].id)
          IN req' = [req EXCEPT ![r] =
                       IF bodyOk /\ idOk
                       THEN Pass([@ EXCEPT !.hpc =
                                    IF req[r].op = "create" THEN "write" ELSE "find"])
                       ELSE Respond(@, 400, "validate", "none")]
  /\ UNCHANGED <<posts, nextId, assets, hits, admitted, issued, deletedOk, cachedDb>>


\* -------------------------------------------------------------- record store
\* Post.findById: the document, or null (the empty sequence).
FindById(ps, id) == IF id \in DOMAIN ps THEN <<ps[id]>> ELSE <<>>

\* new Post(postData).save(): the store assigns the identifier.
Saved(ps, id, image) == [i \in DOMAIN ps \cup {id} |->
                           IF i = id THEN [image |-> image] ELSE ps[i]]

\* Post.findByIdAndUpdate(id, updateData, {new: true, runValidators: true})
\* with an upsert, which the route does not ask for.
UpdatedUpsert(ps, id, file) ==
  IF id \in DOMAIN ps
  THEN [ps EXCEPT ![id].image = IF file # NoImage THEN file ELSE @]
  ELSE Saved(ps, id, file)

\* Post.findByIdAndUpdate(id, updateData, {new: true, runValidators: true}):
\* the image is in updateData only when a file came with the request; a
\* missing document is left missing.
Updated(ps, id, file) ==
  IF id \in DOMAIN ps
  THEN [ps EXCEPT ![id].image = IF file # NoImage THEN file ELSE @]
  ELSE ps

\* Post.findByIdAndDelete
Removed(ps, id) == [i \in DOMAIN ps \ {id} |-> ps[i]]

\* The status the route's catch block answers with.
CatchStatus(op) == IF op \in {"create", "update"} THEN 400 ELSE 500

\* ------------------------------------------------------------- deleteImage
\* if (!imageUrl) return: no call is made for an empty URL.
DestroyCalled(url) == url # NoImage

\* The asset store after deleteImage(url): the destroy takes effect (done),
\* or it fails.
DeleteImageAssets(as, url, done) ==
  IF DestroyCalled(url) /\ done THEN Destroyed(as, PublicIdOf(url)) ELSE as

\* deleteImage without its catch: a failed destroy is thrown to the caller.
DeleteImageRethrows(url, done) ==
  IF DestroyCalled(url) /\ ~done THEN "thrown" ELSE "returned"
\* try { ... } catch (error) { console.error(...) }: deleteImage returns to
\* its caller whether the destroy took effect or failed.
DeleteImageOutcome(url, done) == "returned"

\* await deleteImage(existing.image) in the update and delete handlers; what
\* it throws would go to the handler's catch block.
DeleteImage(r) ==
  /\ Stage(r) = "handler"
  /\ req[r].hpc = "destroy"
  /\ \E done \in BOOLEAN :
       /\ assets' = DeleteImageAssets(assets, req[r].existing, done)
       /\ req' = [req EXCEPT ![r] =
                    LET q == [@ EXCEPT !.log = Append(@, "destroy")]
                    IN IF DeleteImageOutcome(req[r].existing, done) = "returned"
                       THEN [q EXCEPT !.hpc = "write"]
                       ELSE Respond(q, CatchStatus(req[r].op), "catch", "none")]
  /\ UNCHANGED <<posts, nextId, hits, admitted, issued, deletedOk, cachedDb>>

\* ------------------------------------------------------- router.post('/')
PostSave(r) ==
  /\ Stage(r) = "handler"
  /\ req[r].op = "create"
  /\ \/ /\ posts' = Saved(posts, nextId, req[r].file)
        /\ nextId' = nextId + 1
        /\ req' = [req EXCEPT ![r] =
                     Respond([@ EXCEPT !.log = Append(@, "create")],
                             201, "handler", "post")]
     \/ /\ req' = [req EXCEPT ![r] = Respond(@, 400, "catch", "none")]
        /\ UNCHANGED <<posts, nextId>>
  /\ UNCHANGED <<assets, hits, admitted, issued, deletedOk, cachedDb>>

\* ------------------------------------- findById of PUT, DELETE and GET /:id
\* The existing record is read; with an image to clean up the handler goes on
\* to deleteImage, otherwise to its write.
AfterFind(q, found) ==
  CASE q.op = "get" -> Respond(q, 200, "handler", "post")
    [] q.op = "update" ->
         [q EXCEPT !.existing = found.image,
                   !.hpc = IF q.file # NoImage /\ found.image # NoImage
                           THEN "destroy" ELSE "write"]
    [] q.op = "delete" ->
         [q EXCEPT !.existing = found.image,
                   !.hpc = IF found.image # NoImage THEN "destroy" ELSE "write"]

Find(r) ==
  /\ Stage(r) = "handler"
  /\ req[r].hpc = "find"
  /\ \/ LET found == FindById(posts, req[r].id)
        IN req' = [req EXCEPT ![r] =
                     IF found = <<>>
                     THEN Respond(@, 404, "handler", "none")
                     ELSE AfterFind(@, found[1])]
     \/ req' = [req EXCEPT ![r] = Respond(@, CatchStatus(req[r].op), "catch", "none")]
  /\ UNCHANGED <<posts, nextId, assets, hits, admitted, issued, deletedOk, cachedDb>>

\* ------------------------------------------------------ router.put('/:id')
PutUpdate(r) ==
  /\ Stage(r) = "handler"
  /\ req[r].op = "update"
  /\ req[r].hpc = "write"
  /\ \/ /\ posts' = Updated(posts, req[r].id, req[r].file)
        /\ req' = [req EXCEPT ![r] =
                     IF req[r].id \in DOMAIN posts'
                     THEN Respond([@ EXCEPT !.log = Append(@, "update")],
                                  200, "handler", "post")
                     ELSE Respond(@, 200, "handler", "null")]
     \/ /\ req' = [req EXCEPT ![r] = Respond(@, 400, "catch", "none")]
        /\ UNCHANGED posts
  /\ UNCHANGED <<nextId, assets, hits, admitted, issued, deletedOk, cachedDb>>

\* --------------------------------------------------- router.delete('/:id')
DeleteRemove(r) ==
  /\ Stage(r) = "handler"
  /\ req[r].op = "delete"
  /\ req[r].hpc = "write"
  /\ \/ /\ posts' = Removed(posts, req[r].id)
        /\ deletedOk' = deletedOk \cup {req[r].id}
        /\ req' = [req EXCEPT ![r] =
                     Respond([@ EXCEPT !.log = Append(@, "remove")],
                             200, "handler", "none")]
     \/ /\ req' = [req EXCEPT ![r] = Respond(@, 500, "catch", "none")]
        /\ UNCHANGED <<posts, deletedOk>>
  /\ UNCHANGED <<nextId, assets, hits, admitted, issued, cachedDb>>

\* ------------------------------------------------------- the /api/auth routes
\* A request to the authentication routes is answered there; it touches no
\* post and no asset.
AuthRoutes(r) ==
  /\ Stage(r) = "handler"
  /\ req[r].op = "login"
  /\ req' = [req EXCEPT ![r] = Respond(@, 200, "handler", "none")]
  /\ UNCHANGED <<posts, nextId, assets, hits, admitted, issued, deletedOk, cachedDb>>

\* ------------------------------------------------------------------- crash
\* The process dies: the requests in flight are lost with the in-memory rate
\* counters; the record store and the asset store keep what they hold.
Crash ==
  /\ Flushed
  /\ \E r \in Slots : Busy(r)
  /\ req' = [r \in Slots |-> Idle]
  /\ hits' = [c \in DOMAIN hits |-> [a \in DOMAIN hits[c] |-> 0]]
  /\ admitted' = hits'
  /\ UNCHANGED <<posts, nextId, assets, issued, deletedOk, cachedDb>>

\* The response has been written; the slot serves the next request.
Close(r) ==
  /\ req[r].resp # NoResp
  /\ req' = [req EXCEPT ![r] = Idle]
  /\ UNCHANGED <<posts, nextId, assets, hits, admitted, issued, deletedOk, cachedDb>>

Next ==
  \/ \E r \in Slots : Arrive(r)
  \/ \E r \in Slots : ApiLimiter(r)
  \/ \E r \in Slots : AuthLimiter(r)
  \/ \E r \in Slots : Auth(r)
  \/ \E r \in Slots : UploadLimiter(r)
  \/ \E r \in Slots : UploadSingle(r)
  \/ \E r \in Slots : Validate(r)
  \/ \E r \in Slots : Find(r)
  \/ \E r \in Slots : DeleteImage(r)
  \/ \E r \in Slots : PostSave(r)
  \/ \E r \in Slots : PutUpdate(r)
  \/ \E r \in Slots : DeleteRemove(r)
  \/ \E r \in Slots : AuthRoutes(r)
  \/ \E r \in Slots : Close(r)
  \/ Crash

Spec == Init /\ [][Next]_vars



\* ------------------------------------------- admission at the end of a window
\* The lifecycle from a state late in a window: the address has used up all
\* but the last one or two hits of each class.
InitAdmit ==
  /\ InitStores
  /\ \E g \in {apiMax - 2, apiMax - 1} :
       hits = [c \in Classes |-> [a \in Addrs |->
                 CASE c = "general" -> g
                   [] c = "authentication" -> authMax - 1
                   [] c = "upload" -> uploadMax - 1]]
  /\ admitted = hits
  /\ req = [r \in Slots |-> Idle]
  /\ issued = 0
  /\ deletedOk = {}
  /\ cachedDb = "ready"

SpecAdmit == InitAdmit /\ [][Next]_vars

\* ------------------------------------------------- the general limiter alone
\* Requests of two addresses at the limiter server.js mounts on /api/posts,
\* counted from the start of a window until RateOver requests beyond max.
RateOver == 2
RateAddrs == {"a1", "a2"}

InitRate ==
  /\ posts = <<>>
  /\ nextId = 1
  /\ assets = <<>>
  /\ hits = [c \in Classes |-> [a \in RateAddrs |-> 0]]
  /\ admitted = hits
  /\ req = [r \in Slots |-> Idle]
  /\ issued = 0
  /\ deletedOk = {}
  /\ cachedDb = "ready"

InFlight(a) == Cardinality({r \in Slots : Busy(r) /\ req[r].addr = a /\ req[r].idx = 1})

ArriveRate(r) ==
  /\ Flushed
  /\ req[r].op = "idle"
  /\ \A s \in Slots : s < r => req[s].op # "idle"
  /\ \E a \in RateAddrs :
       /\ hits["general"][a] + InFlight(a) < apiMax + RateOver
       /\ req' = [req EXCEPT ![r] =
                    [Idle EXCEPT !.op = "get", !.addr = a, !.id = nextId, !.idx = 1]]
  /\ UNCHANGED <<posts, nextId, assets, hits, admitted, issued, deletedOk, cachedDb>>

\* A request the limiter let through is the router's from here on.
Forward(r) ==
  /\ Busy(r)
  /\ Flushed
  /\ req[r].idx > 1
  /\ req' = [req EXCEPT ![r] = Idle]
  /\ UNCHANGED <<posts, nextId, assets, hits, admitted, issued, deletedOk, cachedDb>>

NextRate ==
  \/ \E r \in Slots : ArriveRate(r)
  \/ \E r \in Slots : ApiLimiter(r)
  \/ \E r \in Slots : Forward(r)
  \/ \E r \in Slots : Close(r)
  \/ \E a \in RateAddrs : WindowReset("general", a)

SpecRate == InitRate /\ [][NextRate]_vars

\* ======================================================== the fields of a post
\* heading and description are strings: sequences of characters, of which
\* " " is whitespace.  An absent body field is Undefined.
\* A value the request does not carry.
Undefined == <<"undefined">>
MaxPad == 1
headingMin == 3
headingMax == 200
descriptionMin == 10
schemaHeadingMin == 3
schemaHeadingMax == 200
schemaDescriptionMin == 10

IsSpace(c) == c = " "

\* A string of l spaces, n characters of text with a space inside it when it
\* is long enough to hold one, and t spaces.
Str(l, n, t) ==
  [i \in 1..(l + n + t) |->
     IF i <= l \/ i > l + n THEN " "
     ELSE IF i = l + 2 /\ n >= 3 THEN " " ELSE "x"]

\* trim() that strips the leading whitespace only.
RECURSIVE TrimLeft(_)
TrimLeft(s) ==
  IF s # <<>> /\ IsSpace(Head(s)) THEN TrimLeft(Tail(s)) ELSE s

\* validator's trim() and the schema's trim: true (String.prototype.trim):
\* leading and trailing whitespace is stripped.
RECURSIVE Trim(_)
Trim(s) ==
  IF s = <<>> THEN s
  ELSE IF IsSpace(s[1]) THEN Trim(Tail(s))
  ELSE IF IsSpace(s[Len(s)]) THEN Trim(SubSeq(s, 1, Len(s) - 1))
  ELSE s

\* A sanitizer is given the string of the value: '' for undefined.
StringOf(v) == IF v = Undefined THEN <<>> ELSE v

NotEmpty(s) == Len(s) # 0

\* isLength without its lower bound.
IsLengthNoMin(s, opts) ==
  IF opts.max = <<>> THEN TRUE ELSE Len(s) <= opts.max[1]
\* isLength({min, max}) of validator, minlength and maxlength of the schema;
\* max is <<>> when there is none.
IsLength(s, opts) ==
  /\ Len(s) >= opts.min
  /\ IF opts.max = <<>> THEN TRUE ELSE Len(s) <= opts.max[1]

HeadingLength == [min |-> headingMin, max |-> <<headingMax>>]
DescriptionLength == [min |-> descriptionMin, max |-> <<>>]
SchemaHeadingLength == [min |-> schemaHeadingMin, max |-> <<schemaHeadingMax>>]
SchemaDescriptionLength == [min |-> schemaDescriptionMin, max |-> <<>>]

Fields == {"heading", "description"}
LengthOf == [heading |-> HeadingLength, description |-> DescriptionLength]
SchemaLengthOf ==
  [heading |-> SchemaHeadingLength, description |-> SchemaDescriptionLength]
RequiredMsg == [heading |-> "Heading is required",
                description |-> "Description is required"]
LengthMsg == [heading |-> "Heading must be between 3 and 200 characters",
              description |-> "Description must be at least 10 characters"]

\* postValidators.create on one field: trim(), then notEmpty() and isLength(),
\* each adding its message when it fails.
CreateChain(f, v) ==
  LET s == Trim(StringOf(v))
  IN [value |-> s,
      errors |-> (IF NotEmpty(s) THEN <<>> ELSE <<RequiredMsg[f]>>)
                   \o (IF IsLength(s, LengthOf[f]) THEN <<>> ELSE <<LengthMsg[f]>>)]

\* postValidators.update on one field: optional() leaves an undefined field
\* alone; any other value is trimmed and its length checked.
UpdateChain(f, v) ==
  IF v = Undefined THEN [value |-> Undefined, errors |-> <<>>]
  ELSE LET s == Trim(StringOf(v))
       IN [value |-> s,
           errors |-> IF IsLength(s, LengthOf[f]) THEN <<>> ELSE <<LengthMsg[f]>>]

FieldChain(op, f, v) == IF op = "create" THEN CreateChain(f, v) ELSE UpdateChain(f, v)

\* The body as the validators leave it.
Sanitized(op, body) == [f \in Fields |-> FieldChain(op, f, body[f]).value]

\* validate(): formattedErrors, the messages of each field that has any.
FormattedErrors(op, body) ==
  [f \in {g \in Fields : FieldChain(op, g, body[g]).errors # <<>>} |->
     FieldChain(op, f, body[f]).errors]

\* The document's own validation at save(): the trimmed value is required
\* and within the schema's lengths.
SchemaTrim(v) == IF v = Undefined THEN v ELSE Trim(v)
SaveValid(doc) ==
  \A f \in Fields :
    /\ doc[f] # Undefined
    /\ NotEmpty(doc[f])
    /\ IsLength(doc[f], SchemaLengthOf[f])

\* runValidators: true checks the lengths of the fields the update sets.
UpdateValid(updateData) ==
  \A f \in Fields :
    updateData[f] # Undefined => IsLength(updateData[f], SchemaLengthOf[f])

\* ============================================== POST /api/posts, field by field
\* One Create from the parsed body to its answer: the create validators and
\* validate(), then the handler's new Post(postData).save().
HeadingLens == {0, headingMin - 1, headingMin, headingMax, headingMax + 1}
DescriptionLens == {0, descriptionMin - 1, descriptionMin}
HeadingTexts ==
  {Undefined} \cup {Str(l, n, t) : l \in 0..MaxPad, n \in HeadingLens, t \in 0..MaxPad}
DescriptionTexts ==
  {Undefined}
    \cup {Str(l, n, t) : l \in 0..MaxPad, n \in DescriptionLens, t \in 0..MaxPad}

NoErrors == [f \in {} |-> <<>>]
FieldNoResp == [status |-> 0, by |-> "", errors |-> NoErrors]

CreateReq(body, file) ==
  [op |-> "create", raw |-> body, body |-> body, file |-> file,
   hpc |-> "validate", resp |-> FieldNoResp]

InitValid ==
  /\ posts = <<>>
  /\ nextId = 1
  /\ assets = <<>>
  /\ hits = [c \in Classes |-> [a \in Addrs |-> 0]]
  /\ admitted = [c \in Classes |-> [a \in Addrs |-> 0]]
  /\ issued = 0
  /\ deletedOk = {}
  /\ cachedDb = "ready"
  /\ \E h \in HeadingTexts, d \in DescriptionTexts, file \in {NoImage, UrlOf(1)} :
       req = CreateReq([heading |-> h, description |-> d], file)

\* postValidators.create and validate(): 400 with the error map, or next()
\* with the sanitized body.
ValidateCreate ==
  /\ req.hpc = "validate"
  /\ LET errors == FormattedErrors("create", req.body)
     IN req' = IF DOMAIN errors # {}
               THEN [req EXCEPT !.hpc = "done",
                                !.resp = [status |-> 400, by |-> "validate",
                                          errors |-> errors]]
               ELSE [req EXCEPT !.hpc = "handler",
                                !.body = Sanitized("create", req.body)]
  /\ UNCHANGED <<posts, nextId, assets, hits, admitted, issued, deletedOk, cachedDb>>

\* new Post(postData): the schema's setters trim the strings.
NewPost(body, file) ==
  [heading |-> SchemaTrim(body.heading),
   description |-> SchemaTrim(body.description),
   image |-> file]

\* The handler: post.save() validates the document and stores it; a
\* validation error or a store failure is answered by the catch block.
CreateSave ==
  /\ req.hpc = "handler"
  /\ LET post == NewPost(req.body, req.file)
     IN \/ /\ SaveValid(post)
           /\ posts' = [i \in DOMAIN posts \cup {nextId} |->
                          IF i = nextId THEN post ELSE posts[i]]
           /\ nextId' = nextId + 1
           /\ req' = [req EXCEPT !.hpc = "done",
                                 !.resp = [status |-> 201, by |-> "handler",
                                           errors |-> NoErrors]]
        \/ /\ req' = [req EXCEPT !.hpc = "done",
                                 !.resp = [status |-> CatchStatus("create"),
                                           by |-> "catch", errors |-> NoErrors]]
           /\ UNCHANGED <<posts, nextId>>
  /\ UNCHANGED <<assets, hits, admitted, issued, deletedOk, cachedDb>>

NextValid ==
  \/ ValidateCreate
  \/ CreateSave

SpecValid == InitValid /\ [][NextValid]_vars

\* ===================================== Create and Update, field by field
\* The create and update routes with the fields of the body and of the
\* record; what the limiters, the gate and the asset store do to a request is
\* the concern of Spec.  Requests run side by side: between the existence
\* check of an Update and its findByIdAndUpdate any other request may run.
FieldHeadings ==
  {Undefined, Str(1, headingMin - 1, 1), Str(1, headingMin, 0),
   Str(0, headingMax, 1), Str(0, headingMax + 1, 0)}
FieldDescriptions ==
  {Undefined, Str(0, descriptionMin - 1, 1), Str(1, descriptionMin, 0),
   Str(0, descriptionMin + 1, 0)}

NoBody == [heading |-> Undefined, description |-> Undefined]
FieldIdle ==
  [op |-> "idle", id |-> BadId, body |-> NoBody, file |-> NoImage,
   hpc |-> "", resp |-> FieldNoResp]

FieldFlushed == \A r \in Slots : req[r].resp = FieldNoResp
\* A request in flight.
FieldBusy(r) == req[r].op # "idle" /\ req[r].resp = FieldNoResp

FieldRespond(q, status, by, errors) ==
  [q EXCEPT !.hpc = "done",
            !.resp = [status |-> status, by |-> by, errors |-> errors]]

\* The store is empty, or holds what one Create without an image has left.
InitFields ==
  /\ \/ posts = <<>>
     \/ posts = <<[heading |-> Str(0, headingMin, 0),
                   description |-> Str(0, descriptionMin, 0),
                   image |-> NoImage]>>
  /\ nextId = Len(posts) + 1
  /\ assets = <<>>
  /\ hits = [c \in Classes |-> [a \in Addrs |-> 0]]
  /\ admitted = [c \in Classes |-> [a \in Addrs |-> 0]]
  /\ issued = 0
  /\ deletedOk = {}
  /\ cachedDb = "ready"
  /\ req = [r \in Slots |-> FieldIdle]

\* A Create or an Update arrives with its parsed body and, perhaps, a stored
\* file, and goes through its validators and validate(): 400 with the error
\* map, or on to the handler with the sanitized body.
FieldRequest(r) ==
  /\ FieldFlushed
  /\ req[r].op = "idle"
  /\ \A s \in Slots : s < r => req[s].op # "idle"
  /\ issued < MaxReqs
  /\ issued' = issued + 1
  /\ \E op \in {"create", "update"}, id \in DOMAIN posts \cup {nextId},
        h \in FieldHeadings, d \in FieldDescriptions,
        file \in {NoImage, UrlOf(issued + 1)} :
       LET body == [heading |-> h, description |-> d]
           errors == FormattedErrors(op, body)
           q == [FieldIdle EXCEPT !.op = op,
                                  !.id = IF op = "create" THEN BadId ELSE id,
                                  !.file = file]
       IN /\ op = "create" => id = nextId
          /\ req' = [req EXCEPT ![r] =
                       IF DOMAIN errors # {}
                       THEN FieldRespond([q EXCEPT !.body = body],
                                         400, "validate", errors)
                       ELSE [q EXCEPT !.body = Sanitized(op, body),
                                      !.hpc = IF op = "create"
                                              THEN "write" ELSE "find"]]
  /\ UNCHANGED <<posts, nextId, assets, hits, admitted, deletedOk, cachedDb>>

\* router.post('/') handler: new Post(postData).save().
FieldCreate(r) ==
  /\ FieldBusy(r)
  /\ req[r].op = "create"
  /\ req[r].hpc = "write"
  /\ LET post == NewPost(req[r].body, req[r].file)
     IN IF SaveValid(post)
        THEN /\ posts' = [i \in DOMAIN posts \cup {nextId} |->
                            IF i = nextId THEN post ELSE posts[i]]
             /\ nextId' = nextId + 1
             /\ req' = [req EXCEPT ![r] = FieldRespond(@, 201, "handler", NoErrors)]
        ELSE /\ req' = [req EXCEPT ![r] =
                          FieldRespond(@, CatchStatus("create"), "catch", NoErrors)]
             /\ UNCHANGED <<posts, nextId>>
  /\ UNCHANGED <<assets, hits, admitted, issued, deletedOk, cachedDb>>

\* router.put('/:id') handler, the existence check.
FieldFind(r) ==
  /\ FieldBusy(r)
  /\ req[r].op = "update"
  /\ req[r].hpc = "find"
  /\ req' = [req EXCEPT ![r] =
               IF FindById(posts, req[r].id) = <<>>
               THEN FieldRespond(@, 404, "handler", NoErrors)
               ELSE [@ EXCEPT !.hpc = "write"]]
  /\ UNCHANGED <<posts, nextId, assets, hits, admitted, issued, deletedOk, cachedDb>>

\* if (heading): undefined and '' are left out of updateData.
Truthy(v) == v # Undefined /\ v # <<>>

\* updateData: the fields the body supplies, and the image when a file came.
UpdateData(body, file) ==
  [heading |-> IF Truthy(body.heading) THEN body.heading ELSE Undefined,
   description |-> IF Truthy(body.description) THEN body.description ELSE Undefined,
   image |-> file]

\* An update that writes the empty string into the fields updateData lacks.
FieldOverwritten(ps, id, updateData) ==
  IF id \in DOMAIN ps
  THEN [ps EXCEPT
          ![id].heading = IF updateData.heading # Undefined
                          THEN SchemaTrim(updateData.heading) ELSE <<>>,
          ![id].description = IF updateData.description # Undefined
                              THEN SchemaTrim(updateData.description) ELSE <<>>,
          ![id].image = IF updateData.image # NoImage
                        THEN updateData.image ELSE @]
  ELSE ps
\* An update that writes the whole document from updateData.
FieldReplaced(ps, id, updateData) ==
  IF id \in DOMAIN ps
  THEN [ps EXCEPT ![id] = [heading |-> SchemaTrim(updateData.heading),
                           description |-> SchemaTrim(updateData.description),
                           image |-> updateData.image]]
  ELSE ps
\* Post.findByIdAndUpdate(id, updateData, ...): the fields of updateData are
\* set, trimmed by the schema; every other field keeps its value.
FieldUpdated(ps, id, updateData) ==
  IF id \in DOMAIN ps
  THEN [ps EXCEPT
          ![id].heading = IF updateData.heading # Undefined
                          THEN SchemaTrim(updateData.heading) ELSE @,
          ![id].description = IF updateData.description # Undefined
                              THEN SchemaTrim(updateData.description) ELSE @,
          ![id].image = IF updateData.image # NoImage
                        THEN updateData.image ELSE @]
  ELSE ps

\* router.put('/:id') handler, findByIdAndUpdate with runValidators.
FieldUpdate(r) ==
  /\ FieldBusy(r)
  /\ req[r].op = "update"
  /\ req[r].hpc = "write"
  /\ LET updateData == UpdateData(req[r].body, req[r].file)
     IN IF UpdateValid([f \in Fields |->
                          SchemaTrim(updateData[f])])
        THEN /\ posts' = FieldUpdated(posts, req[r].id, updateData)
             /\ req' = [req EXCEPT ![r] = FieldRespond(@, 200, "handler", NoErrors)]
        ELSE /\ req' = [req EXCEPT ![r] =
                          FieldRespond(@, CatchStatus("update"), "catch", NoErrors)]
             /\ UNCHANGED posts
  /\ UNCHANGED <<nextId, assets, hits, admitted, issued, deletedOk, cachedDb>>

\* The answer is on the wire; the slot is free again.
FieldClose(r) ==
  /\ req[r].resp # FieldNoResp
  /\ req' = [req EXCEPT ![r] = FieldIdle]
  /\ UNCHANGED <<posts, nextId, assets, hits, admitted, issued, deletedOk, cachedDb>>

\* res.json() ends a request at once: an answer is on the wire before any
\* other request takes its next step.
NextFields ==
  \/ \E r \in Slots : FieldRequest(r)
  \/ \E r \in Slots : FieldFlushed /\ FieldCreate(r)
  \/ \E r \in Slots : FieldFlushed /\ FieldFind(r)
  \/ \E r \in Slots : FieldFlushed /\ FieldUpdate(r)
  \/ \E r \in Slots : FieldClose(r)

SpecFields == InitFields /\ [][NextFields]_vars

\* ================================================================ GET /api/posts
\* The list route on its own: the query string's page and limit, the list
\* validators, the two store reads and the pagination block of the response.
\* A query parameter is the string of its characters, or Undefined.
MaxTotal == 26
MaxPage == 4
DigitChars == <<"0", "1", "2", "3", "4", "5", "6", "7", "8", "9">>
DigitVal(c) == (CHOOSE i \in 1..10 : DigitChars[i] = c) - 1

\* The decimal numeral of n, as a client writes it into the query string.
RECURSIVE Numeral(_)
Numeral(n) ==
  IF n < 10 THEN <<DigitChars[n + 1]>>
  ELSE Append(Numeral(n \div 10), DigitChars[(n % 10) + 1])

\* Number(s) of a string of digits.
RECURSIVE Number(_)
Number(s) ==
  IF s = <<>> THEN 0
  ELSE 10 * Number(SubSeq(s, 1, Len(s) - 1)) + DigitVal(s[Len(s)])

defaultPage == 1
defaultLimit == 10
pageMin == 1
limitMin == 1
limitMax == 100
searchMax == 100

\* validator's isInt: digits only, at least one, leading zeroes allowed.
IsInt(s) == s # <<>> /\ \A i \in 1..Len(s) : \E d \in 1..10 : DigitChars[d] = s[i]

\* postValidators.list: each parameter is optional; when present, page is an
\* integer of at least pageMin, limit an integer in limitMin..limitMax, and
\* the trimmed search term has at most searchMax characters.
ListValid(query) ==
  /\ query.search # Undefined => Len(Trim(query.search)) <= searchMax
  /\ query.page # Undefined => (IsInt(query.page) /\ Number(query.page) >= pageMin)
  /\ query.limit # Undefined
       => /\ IsInt(query.limit)
          /\ Number(query.limit) >= limitMin
          /\ Number(query.limit) <= limitMax

\* const { page = 1, limit = 10 } = req.query, then Number(page), Number(limit).
PageOf(query) ==
  IF query.page = Undefined THEN defaultPage ELSE Number(query.page)
LimitOf(query) ==
  IF query.limit = Undefined THEN defaultLimit ELSE Number(query.limit)

\* Math.ceil(a / b) with the fraction dropped instead.
CeilFloor(a, b) == a \div b
\* Math.ceil(a / b) for a >= 0 and b > 0.
Ceil(a, b) == IF a % b = 0 THEN a \div b ELSE (a \div b) + 1

\* The pagination block of the response.
Pagination(query, totalPosts) ==
  [totalPages |-> Ceil(totalPosts, LimitOf(query)),
   currentPage |-> PageOf(query),
   totalPosts |-> totalPosts,
   limit |-> LimitOf(query),
   hasMore |-> PageOf(query) * LimitOf(query) < totalPosts]

\* ------------------------------------------------------ the search filter
\* $options: 'i' over the characters of the model.
Lower(c) == IF c = "H" THEN "h" ELSE c

\* The store compiles the term as a regular expression.  It refuses a term
\* with an unclosed group (no term of the model closes one) and a "*" that
\* follows no repeatable item.
ValidRegex(p) ==
  \A i \in 1..Len(p) :
    /\ p[i] # "("
    /\ p[i] = "*" => (i > 1 /\ p[i - 1] # "*")

\* The items of a valid pattern: each character other than "*", repeated
\* when a "*" follows it.
Atoms(p) ==
  LET marked == [i \in 1..Len(p) |->
                   [c |-> p[i], star |-> IF i < Len(p) THEN p[i + 1] = "*" ELSE FALSE]]
      IsItem(a) == a.c # "*"
  IN SelectSeq(marked, IsItem)

\* "." stands for any character; any other stands for itself in either case.
AtomMatches(a, c) == a.c = "." \/ Lower(a.c) = Lower(c)

\* The items from the k-th on match the text from position i on.
RECURSIVE MatchAt(_, _, _, _)
MatchAt(atoms, k, text, i) ==
  IF k > Len(atoms) THEN TRUE
  ELSE IF atoms[k].star
  THEN IF MatchAt(atoms, k + 1, text, i) THEN TRUE
       ELSE IF i <= Len(text) /\ AtomMatches(atoms[k], text[i])
       THEN MatchAt(atoms, k, text, i + 1) ELSE FALSE
  ELSE IF i <= Len(text) /\ AtomMatches(atoms[k], text[i])
  THEN MatchAt(atoms, k + 1, text, i + 1) ELSE FALSE

\* { $regex: search, $options: 'i' }: the pattern matches somewhere in the
\* text.
Regex(p, text) ==
  LET atoms == Atoms(p)
  IN \E i \in 1..(Len(text) + 1) : MatchAt(atoms, 1, text, i)

\* if (search): a term that is neither undefined nor ''.
HasSearch(query) == query.search # Undefined /\ query.search # <<>>

\* filter: {} without a term, else $or of the regex on heading and on
\* description; the records of the store the filter selects.
Filtered(ps, query) ==
  IF HasSearch(query)
  THEN LET ids == {id \in DOMAIN ps :
                     \/ Regex(query.search, ps[id].heading)
                     \/ Regex(query.search, ps[id].description)}
       IN [id \in ids |-> ps[id]]
  ELSE ps

\* sort('-createdAt'): the identifiers of the store, newest first.
RECURSIVE NewestFirst(_)
NewestFirst(ids) ==
  IF ids = {} THEN <<>>
  ELSE LET m == CHOOSE i \in ids : \A j \in ids : j <= i
       IN <<m>> \o NewestFirst(ids \ {m})

\* Post.find(filter).sort(sort).limit(limit).skip(skip) on the records the
\* filter selects.
FindPage(ps, skip, limit) ==
  LET all == NewestFirst(DOMAIN ps)
  IN SubSeq(all, skip + 1, IF skip + limit < Len(all) THEN skip + limit ELSE Len(all))

PageParams ==
  {Undefined, <<>>} \cup {Numeral(n) : n \in 0..MaxPage}
    \cup {<<"0">> \o Numeral(n) : n \in 1..MaxPage}
LimitParams == {Undefined} \cup {Numeral(n) : n \in 0..(limitMax + 1)}

ListReq(query) ==
  [op |-> "list", query |-> query, hpc |-> "validate", found |-> <<>>,
   resp |-> [status |-> 0, by |-> "", pagination |-> <<>>]]

\* Any store of up to MaxTotal posts and any query string.
InitList ==
  /\ \E n \in 0..MaxTotal :
       /\ posts = [i \in 1..n |-> [image |-> NoImage]]
       /\ nextId = n + 1
  /\ assets = <<>>
  /\ hits = [c \in Classes |-> [a \in Addrs |-> 0]]
  /\ admitted = [c \in Classes |-> [a \in Addrs |-> 0]]
  /\ issued = 0
  /\ deletedOk = {}
  /\ cachedDb = "ready"
  /\ \E page \in PageParams, limit \in LimitParams :
       req = ListReq([page |-> page, limit |-> limit, search |-> Undefined])

\* postValidators.list and validate(): 400, or on to the handler with the
\* search term trimmed.
ListValidate ==
  /\ req.hpc = "validate"
  /\ req' = IF ListValid(req.query)
            THEN [req EXCEPT !.hpc = "find",
                             !.query.search = IF @ = Undefined THEN @ ELSE Trim(@)]
            ELSE [req EXCEPT !.hpc = "done",
                             !.resp = [status |-> 400, by |-> "validate",
                                       pagination |-> <<>>]]
  /\ UNCHANGED <<posts, nextId, assets, hits, admitted, issued, deletedOk, cachedDb>>

\* await Post.find(filter)...lean(), or the catch block: the store fails, or
\* it refuses the term as a regular expression.
ListFind ==
  /\ req.hpc = "find"
  /\ \/ /\ HasSearch(req.query) => ValidRegex(req.query.search)
        /\ req' = [req EXCEPT
                     !.hpc = "count",
                     !.found = FindPage(Filtered(posts, req.query),
                                        (PageOf(req.query) - 1) * LimitOf(req.query),
                                        LimitOf(req.query))]
     \/ req' = [req EXCEPT !.hpc = "done",
                           !.resp = [status |-> 500, by |-> "catch",
                                     pagination |-> <<>>]]
  /\ UNCHANGED <<posts, nextId, assets, hits, admitted, issued, deletedOk, cachedDb>>

\* await Post.countDocuments(filter), then res.json.
ListCount ==
  /\ req.hpc = "count"
  /\ req' = [req EXCEPT
               !.hpc = "done",
               !.resp = [status |-> 200, by |-> "handler",
                         pagination |->
                           Pagination(req.query,
                                      Cardinality(DOMAIN Filtered(posts, req.query)))]]
  /\ UNCHANGED <<posts, nextId, assets, hits, admitted, issued, deletedOk, cachedDb>>

NextList ==
  \/ ListValidate
  \/ ListFind
  \/ ListCount

SpecList == InitList /\ [][NextList]_vars

\* ================================================ GET /api/posts with a search
\* The list route with a search term, over stores of a few posts, while other
\* requests create and delete posts.
MaxTerm == 2
MaxSearchPosts == 2
MaxChanges == 1

\* The string of n characters that starts with prefix and goes on with "x".
Fill(prefix, n) == [i \in 1..n |-> IF i <= Len(prefix) THEN prefix[i] ELSE "x"]

SearchRecords ==
  {[heading |-> Fill(<<"H">>, headingMin),
    description |-> Fill(<<>>, descriptionMin), image |-> NoImage],
   [heading |-> Fill(<<"x", ".">>, headingMin),
    description |-> Fill(<<>>, descriptionMin), image |-> NoImage],
   [heading |-> Fill(<<>>, headingMin),
    description |-> Fill(<<"h", "*">>, descriptionMin), image |-> NoImage]}

TermChars == {"h", "H", ".", "*", "("}
Terms ==
  {Undefined, Fill(<<"h">>, searchMax), Fill(<<"h">>, searchMax + 1)}
    \cup UNION {[1..n -> TermChars] : n \in 0..MaxTerm}

InitSearch ==
  /\ \E n \in 0..MaxSearchPosts :
       /\ posts \in [1..n -> SearchRecords]
       /\ nextId = n + 1
  /\ assets = <<>>
  /\ hits = [c \in Classes |-> [a \in Addrs |-> 0]]
  /\ admitted = [c \in Classes |-> [a \in Addrs |-> 0]]
  /\ issued = 0
  /\ deletedOk = {}
  /\ cachedDb = "ready"
  /\ \E term \in Terms :
       req = ListReq([page |-> Undefined, limit |-> Undefined, search |-> term])

\* Another request's post.save() commits while the List is between its
\* awaits.
StoreCreate ==
  /\ req.hpc \in {"find", "count"}
  /\ issued < MaxChanges
  /\ issued' = issued + 1
  /\ \E post \in SearchRecords :
       posts' = [i \in DOMAIN posts \cup {nextId} |->
                   IF i = nextId THEN post ELSE posts[i]]
  /\ nextId' = nextId + 1
  /\ UNCHANGED <<assets, hits, admitted, deletedOk, req, cachedDb>>

\* Another request's findByIdAndDelete commits while the List is between
\* its awaits.
StoreDelete ==
  /\ req.hpc \in {"find", "count"}
  /\ issued < MaxChanges
  /\ issued' = issued + 1
  /\ \E id \in DOMAIN posts : posts' = Removed(posts, id)
  /\ UNCHANGED <<nextId, assets, hits, admitted, deletedOk, req, cachedDb>>

NextSearch ==
  \/ ListValidate
  \/ ListFind
  \/ ListCount
  \/ StoreCreate
  \/ StoreDelete

SpecSearch == InitSearch /\ [][NextSearch]_vars

\* ============================================ Updates of one post side by side
\* Updates of the fields of a stored post, each running from its arrival to
\* its answer while the others run; no answer is cleared away, so that the
\* record can be compared with every request that was answered.
InitPair ==
  /\ posts = <<[heading |-> Str(0, headingMin, 0),
                description |-> Str(0, descriptionMin, 0),
                image |-> NoImage]>>
  /\ nextId = 2
  /\ assets = <<>>
  /\ hits = [c \in Classes |-> [a \in Addrs |-> 0]]
  /\ admitted = [c \in Classes |-> [a \in Addrs |-> 0]]
  /\ issued = 0
  /\ deletedOk = {}
  /\ cachedDb = "ready"
  /\ req = [r \in Slots |-> FieldIdle]

\* An Update without a file arrives and passes its validators.
PairRequest(r) ==
  /\ FieldRequest(r)
  /\ req'[r].op = "update"
  /\ req'[r].file = NoImage
  /\ req'[r].resp = FieldNoResp

NextPair ==
  \/ \E r \in Slots : PairRequest(r)
  \/ \E r \in Slots : FieldFind(r)
  \/ \E r \in Slots : FieldUpdate(r)

SpecPair == InitPair /\ [][NextPair]_vars

\* ================================================= the store connection
\* connectDB and the connection middleware of server.js, which every request
\* passes before any route.  cachedDb is "null", "ready" (a cached connection
\* with readyState 1) or "lost" (a cached connection in any other state).
MaxArrivals == 3
ConnIdle == [op |-> "idle", pc |-> "", status |-> 0, routed |-> FALSE]

InitConnect ==
  /\ posts = <<>>
  /\ nextId = 1
  /\ assets = <<>>
  /\ hits = [c \in Classes |-> [a \in Addrs |-> 0]]
  /\ admitted = [c \in Classes |-> [a \in Addrs |-> 0]]
  /\ issued = 0
  /\ deletedOk = {}
  /\ cachedDb = "null"
  /\ req = [r \in Slots |-> ConnIdle]

\* A request enters the connection middleware.
ConnArrive(r) ==
  /\ req[r].op = "idle"
  /\ issued < MaxArrivals
  /\ issued' = issued + 1
  /\ req' = [req EXCEPT ![r] = [ConnIdle EXCEPT !.op = "request", !.pc = "connectDB"]]
  /\ UNCHANGED <<posts, nextId, assets, hits, admitted, deletedOk, cachedDb>>

\* cachedDb && cachedDb.connection.readyState === 1
Usable(db) == db = "ready"

\* connectDB up to its await: the cached connection is returned and the
\* middleware calls next(), or mongoose.connect is called.
ConnectDB(r) ==
  /\ req[r].pc = "connectDB"
  /\ req' = [req EXCEPT ![r].pc = IF Usable(cachedDb) THEN "next" ELSE "connecting"]
  /\ UNCHANGED <<posts, nextId, assets, hits, admitted, issued, deletedOk, cachedDb>>

\* mongoose.connect resolves: the connection is cached and the middleware
\* calls next(); or it rejects: the cache is cleared and the middleware
\* answers 503.
ConnectDone(r) ==
  /\ req[r].pc = "connecting"
  /\ \/ /\ cachedDb' = "ready"
        /\ req' = [req EXCEPT ![r].pc = "next"]
     \/ /\ cachedDb' = "null"
        /\ req' = [req EXCEPT ![r].pc = "done", ![r].status = 503]
  /\ UNCHANGED <<posts, nextId, assets, hits, admitted, issued, deletedOk>>

\* The routes behind the middleware answer the request.
Routed(r) ==
  /\ req[r].pc = "next"
  /\ req' = [req EXCEPT ![r].pc = "done", ![r].status = 200, ![r].routed = TRUE]
  /\ UNCHANGED <<posts, nextId, assets, hits, admitted, issued, deletedOk, cachedDb>>

\* The connection drops: readyState is no longer 1.
ConnLost ==
  /\ cachedDb = "ready"
  /\ cachedDb' = "lost"
  /\ UNCHANGED <<posts, nextId, assets, hits, admitted, req, issued, deletedOk>>

ConnClose(r) ==
  /\ req[r].pc = "done"
  /\ req' = [req EXCEPT ![r] = ConnIdle]
  /\ UNCHANGED <<posts, nextId, assets, hits, admitted, issued, deletedOk, cachedDb>>

NextConnect ==
  \/ \E r \in Slots : ConnArrive(r)
  \/ \E r \in Slots : ConnectDB(r)
  \/ \E r \in Slots : ConnectDone(r)
  \/ \E r \in Slots : Routed(r)
  \/ \E r \in Slots : ConnClose(r)
  \/ ConnLost

SpecConnect == InitConnect /\ [][NextConnect]_vars

\* ===================================================================== claims
Index(seq, x) ==
  IF \E i \in 1..Len(seq) : seq[i] = x
  THEN CHOOSE i \in 1..Len(seq) : seq[i] = x /\ \A j \in 1..(i - 1) : seq[j] # x
  ELSE 0

\* x occurs in seq before any y does.
Precedes(seq, x, y) == Index(seq, x) # 0 /\ Index(seq, x) < Index(seq, y)

\* C1: an Update that replaces an image issues the delete of the previous image
\* only after it has committed the record update.
C1_DeleteOldAfterUpdate ==
  \A r \in Slots :
    (req[r].op = "update" /\ Index(req[r].log, "destroy") # 0)
      => Precedes(req[r].log, "update", "destroy")

\* C2: a Delete removes the record before it issues the delete of its image.
C2_RemoveBeforeDestroy ==
  \A r \in Slots :
    (req[r].op = "delete" /\ Index(req[r].log, "destroy") # 0)
      => Precedes(req[r].log, "remove", "destroy")

\* C3: no live record has a non-empty image whose blob the system destroyed.
C3_NoDanglingImage ==
  \A id \in DOMAIN posts :
    posts[id].image # NoImage => assets[posts[id].image.name] # "destroyed"

\* C4: a Create or Update refused by validation has had no side effect.
C4_ValidationBeforeEffects ==
  \A r \in Slots :
    (req[r].op \in {"create", "update"} /\ req[r].resp.by = "validate")
      => req[r].log = <<>>

\* C5: a Create, Update or Delete refused as Unauthenticated has uploaded,
\* destroyed, created, updated and removed nothing.
C5_AuthBeforeEffects ==
  \A r \in Slots :
    (req[r].op \in {"create", "update", "delete"} /\ req[r].resp.status = 401)
      => req[r].log = <<>>

\* An Update or Delete of a live post was turned away at the gate.
C5_Witness ==
  \E r \in Slots :
    /\ req[r].op \in {"update", "delete"}
    /\ req[r].id \in DOMAIN posts
    /\ req[r].resp.status = 401
    /\ req[r].resp.by = "auth"


\* C6 as stated: a request refused by a limiter has reached neither the
\* authorization gate, nor validation, nor the handler.
C6_LimitersFirst ==
  \A r \in Slots :
    req[r].resp.status = 429
      => Reached(req[r]) \cap {"auth", "validate", "handler"} = {}

\* C6 as amended: a request refused by the general or the authentication
\* limiter has reached neither the gate, nor the upload, nor validation, nor
\* the handler; a Create or Update refused by the upload limiter has passed
\* the general limiter and the gate and has reached neither the upload, nor
\* validation, nor the handler, and has had no side effect.
C6_LimitersBeforeWork ==
  \A r \in Slots :
    req[r].resp.status = 429
      => /\ req[r].resp.by \in {"apiLimiter", "authLimiter", "uploadLimiter"}
         /\ req[r].log = <<>>
         /\ Reached(req[r]) \cap {"upload", "validate", "handler"} = {}
         /\ req[r].resp.by \in {"apiLimiter", "authLimiter"}
              => "auth" \notin Reached(req[r])
         /\ req[r].resp.by = "uploadLimiter"
              => /\ req[r].op \in {"create", "update"}
                 /\ {"apiLimiter", "auth"} \subseteq Reached(req[r])

\* A Create or Update past the gate is refused by the upload limiter.
C6_Witness ==
  \E r \in Slots :
    /\ req[r].resp.status = 429
    /\ req[r].resp.by = "uploadLimiter"
    /\ "auth" \in Reached(req[r])

\* C7: an admitted operation is charged to exactly one class: upload for a
\* Create or Update with an image, general for every other post operation.
C7_OneClassCharged ==
  \A r \in Slots :
    (req[r].op \in {"create", "update", "delete", "get"}
       /\ "handler" \in Reached(req[r]))
      => req[r].charged =
           IF req[r].op \in {"create", "update"} /\ req[r].file # NoImage
           THEN {"upload"} ELSE {"general"}

\* C8: an address is let through the general limiter for exactly its first
\* apiMax requests of a window, whatever other addresses do, and never more.
Min(a, b) == IF a < b THEN a ELSE b

C8_GeneralBudget ==
  \A a \in DOMAIN hits["general"] :
    /\ admitted["general"][a] <= apiMax
    /\ admitted["general"][a] = Min(hits["general"][a], apiMax)
    /\ \A r \in Slots :
         (req[r].addr = a /\ req[r].resp.by = "apiLimiter")
           => /\ req[r].resp.status = 429
              /\ hits["general"][a] > apiMax

\* The 101st request of one address is refused while the other address, with
\* requests of its own in the window, is below its budget.
C8_Witness ==
  \E r \in Slots, b \in DOMAIN hits["general"] :
    /\ req[r].resp.status = 429
    /\ req[r].resp.by = "apiLimiter"
    /\ hits["general"][req[r].addr] = apiMax + 1
    /\ admitted["general"][req[r].addr] = apiMax
    /\ b # req[r].addr
    /\ hits["general"][b] > 0
    /\ admitted["general"][b] = hits["general"][b]

\* C9: once a Delete of an identifier has answered 200, no record with that
\* identifier exists, and a Get that reads the store answers 404.
C9_DeleteTerminal ==
  /\ \A id \in deletedOk : id \notin DOMAIN posts
  /\ \A r \in Slots :
       (req[r].op = "get" /\ req[r].id \in deletedOk)
         => /\ req[r].resp.status # 200
            /\ req[r].resp.by = "handler" => req[r].resp.status = 404

\* An Update that found the record is applied after the Delete has committed.
C9_Witness ==
  \E r \in Slots :
    /\ req[r].op = "update"
    /\ req[r].id \in deletedOk
    /\ req[r].hpc = "write"
    /\ req[r].resp.status = 200

\* C10: an Update answers 200 only with the updated live record in the
\* response.
C10_UpdateOkMeansUpdated ==
  \A r \in Slots :
    (req[r].op = "update" /\ req[r].resp.status = 200)
      => /\ req[r].resp.post = "post"
         /\ req[r].id \in DOMAIN posts

\* C11: a post is deleted once: a Delete answers 200 for an identifier only if
\* no Delete of that identifier has answered 200 before it.
C11_DeletedOnce ==
  [][\A r \in Slots :
       (req[r].op = "delete" /\ req[r].resp = NoResp /\ req'[r].resp.status = 200)
         => req[r].id \notin deletedOk]_vars

\* C13: the asset cleanup never blocks the record mutation: an Update or
\* Delete that is waiting for the asset store to answer its delete call has
\* already committed its record update or removal, so that a call that never
\* completes leaves the mutation committed.
C13_CleanupNeverBlocks ==
  \A r \in Slots :
    (req[r].op \in {"update", "delete"} /\ Stage(r) = "handler"
       /\ req[r].hpc = "destroy")
      => \/ Index(req[r].log, "update") # 0
         \/ Index(req[r].log, "remove") # 0

\* C17: a Create or Update whose attached file is refused for its type or its
\* size is answered 400, and has created and updated no record.
C17_RefusedFileIs400 ==
  \A r \in Slots :
    (req[r].op \in {"create", "update"} /\ req[r].resp.by = "fileFilter")
      => /\ req[r].resp.status = 400
         /\ Index(req[r].log, "create") = 0
         /\ Index(req[r].log, "update") = 0

\* C14: a Create has passed the upload before it creates its record, so that
\* an attached image is in the asset store before the record exists; a Create
\* whose upload failed has not reached the handler and has created no record.
C14_UploadBeforeCreate ==
  \A r \in Slots :
    req[r].op = "create"
      => /\ Index(req[r].log, "create") # 0
              => /\ "upload" \in Reached(req[r])
                 /\ req[r].file # NoImage
                      => /\ Precedes(req[r].log, "upload", "create")
                         /\ req[r].file.name \in 1..Len(assets)
         /\ req[r].resp.by = "upload"
              => /\ "handler" \notin Reached(req[r])
                 /\ req[r].log = <<>>

\* A Create with an image has stored the blob and then created the record.
C14_Witness ==
  \E r \in Slots :
    /\ req[r].op = "create"
    /\ req[r].file # NoImage
    /\ req[r].log = <<"upload", "create">>
    /\ req[r].resp.status = 201

\* C15: an Update of an identifier with no live record answers 404 before any
\* asset handling: no blob is uploaded for an Update that ends in 404.
C15_NotFoundBeforeUpload ==
  \A r \in Slots :
    (req[r].op = "update" /\ req[r].resp.status = 404)
      => /\ Index(req[r].log, "upload") = 0
         /\ req[r].file = NoImage

\* C18: a record-store failure inside a post handler is answered 500 and has
\* created, updated and removed nothing; a failure during a Create or an
\* Update is not answered 400.
C18_StoreFailureIs500 ==
  \A r \in Slots :
    req[r].resp.by = "catch"
      => /\ req[r].resp.status = 500
         /\ Index(req[r].log, "create") = 0
         /\ Index(req[r].log, "update") = 0
         /\ Index(req[r].log, "remove") = 0

\* C19: a List answered 200 for page number page >= 1 and page size limit in
\* 1..100, with total posts in the store, reports totalPages as the least
\* integer not below total / limit, currentPage = page, totalPosts = total and
\* hasMore exactly when page * limit < total; an omitted page counts as 1 and
\* an omitted limit as 10; with 25 posts and limit 10 there are 3 pages,
\* hasMore on page 2 and not on page 3.
C19_Pagination ==
  req.resp.status = 200 =>
    \A page \in 1..MaxPage, limit \in 1..100 :
      LET total == Cardinality(DOMAIN posts)
          pg == req.resp.pagination
      IN (/\ req.query.page \in
               {Numeral(page)} \cup (IF page = 1 THEN {Undefined} ELSE {})
          /\ req.query.limit \in
               {Numeral(limit)} \cup (IF limit = 10 THEN {Undefined} ELSE {}))
         => /\ pg.totalPages * limit >= total
            /\ (pg.totalPages - 1) * limit < total
            /\ pg.currentPage = page
            /\ pg.totalPosts = total
            /\ pg.hasMore = (page * limit < total)
            /\ (total = 25 /\ limit = 10)
                 => /\ pg.totalPages = 3
                    /\ page = 2 => pg.hasMore
                    /\ page = 3 => ~pg.hasMore

\* The last page of 25 posts listed ten at a time.
C19_Witness ==
  /\ req.resp.status = 200
  /\ Cardinality(DOMAIN posts) = 25
  /\ req.query.page = <<"3">>
  /\ req.query.limit = <<"1", "0">>
  /\ req.resp.pagination.totalPages = 3
  /\ ~req.resp.pagination.hasMore
  /\ Len(req.found) = 5

\* The length of a string without its leading and trailing whitespace; an
\* absent field has none.
TrimmedLen(v) ==
  IF v = Undefined \/ \A i \in 1..Len(v) : v[i] = " " THEN 0
  ELSE LET first == CHOOSE i \in 1..Len(v) :
                      v[i] # " " /\ \A j \in 1..(i - 1) : v[j] = " "
           last == CHOOSE i \in 1..Len(v) :
                     v[i] # " " /\ \A j \in (i + 1)..Len(v) : v[j] = " "
       IN last - first + 1

\* C20: the create validation lets a request through exactly when its trimmed
\* heading has 3 to 200 characters and its trimmed description at least 10; a
\* request it refuses is answered 400 with a map from the failing fields to
\* their messages, and the create handler does not run.
C20_CreateValidation ==
  LET h == TrimmedLen(req.raw.heading)
      d == TrimmedLen(req.raw.description)
      accepted == req.hpc = "handler" \/ req.resp.by \in {"handler", "catch"}
      refused == req.resp.by = "validate"
  IN req.hpc # "validate"
       => /\ accepted <=> (h >= 3 /\ h <= 200 /\ d >= 10)
          /\ refused <=> ~accepted
          /\ (h = 2 \/ d = 9) => refused
          /\ (h = 3 /\ d = 10) => accepted
          /\ refused
               => /\ req.resp.status = 400
                  /\ DOMAIN req.resp.errors =
                       {f \in Fields :
                          IF f = "heading" THEN h < 3 \/ h > 200 ELSE d < 10}
                  /\ \A f \in DOMAIN req.resp.errors : req.resp.errors[f] # <<>>
                  /\ req.hpc = "done"
                  /\ posts = <<>>

\* A heading of 3 and a description of 10 characters between spaces are let
\* through and stored trimmed.
C20_Witness ==
  /\ req.raw = [heading |-> Str(1, 3, 1), description |-> Str(1, 10, 1)]
  /\ req.resp.status = 201
  /\ posts[1].heading = Str(0, 3, 0)
  /\ posts[1].description = Str(0, 10, 0)

\* C12: a successful Update leaves each of heading, description and image
\* that its request omits as it was, changes the fields it supplies to the
\* supplied values, and touches no other record.
C12_PartialUpdate ==
  [][\A r \in Slots :
       (/\ req[r].op = "update"
        /\ req[r].resp = FieldNoResp
        /\ req'[r].resp.status = 200)
         => /\ DOMAIN posts' = DOMAIN posts
            /\ \A id \in DOMAIN posts : id # req[r].id => posts'[id] = posts[id]
            /\ req[r].id \in DOMAIN posts
                 => LET old == posts[req[r].id]
                        new == posts'[req[r].id]
                    IN /\ new.heading =
                            IF req[r].body.heading = Undefined
                            THEN old.heading ELSE req[r].body.heading
                       /\ new.description =
                            IF req[r].body.description = Undefined
                            THEN old.description ELSE req[r].body.description
                       /\ new.image =
                            IF req[r].file = NoImage
                            THEN old.image ELSE req[r].file]_vars

\* An Update that supplied a description only has changed the description
\* of a record and left its heading and its image.
C12_Witness ==
  \E r \in Slots :
    /\ req[r].op = "update"
    /\ req[r].resp.status = 200
    /\ req[r].body.heading = Undefined
    /\ req[r].file = NoImage
    /\ req[r].id \in DOMAIN posts
    /\ req[r].body.description = Str(0, 11, 0)
    /\ posts[req[r].id].description = Str(0, 11, 0)
    /\ posts[req[r].id].heading = Str(0, 3, 0)
    /\ posts[req[r].id].image # NoImage

\* C16: every persisted record has a heading of 3 to 200 characters and a
\* description of at least 10 characters, once trimmed.
C16_StoredFieldBounds ==
  \A id \in DOMAIN posts :
    /\ TrimmedLen(posts[id].heading) >= 3
    /\ TrimmedLen(posts[id].heading) <= 200
    /\ TrimmedLen(posts[id].description) >= 10

\* An Update has set the heading of a record created with the shortest
\* heading to the longest one, sent with a space after it.
C16_Witness ==
  \E r \in Slots :
    /\ req[r].op = "update"
    /\ req[r].resp.status = 200
    /\ req[r].id \in DOMAIN posts
    /\ posts[req[r].id].heading = Str(0, 200, 0)
    /\ posts[req[r].id].description = Str(0, 10, 0)

\* The term occurs in the text, letter case apart.
SubstringCI(term, text) ==
  \E i \in 0..(Len(text) - Len(term)) :
    \A j \in 1..Len(term) : Lower(text[i + j]) = Lower(term[j])

\* C21: a List with a search term of at most 100 characters reads from the
\* store exactly the posts that have the term, letter case apart, as a
\* substring of their heading or of their description, whatever characters
\* the term has; a List without a term reads all posts.
C21_SearchIsSubstring ==
  [][(req.hpc = "find" /\ req'.hpc = "count")
       => {req'.found[i] : i \in 1..Len(req'.found)} =
            {id \in DOMAIN posts :
               HasSearch(req.query)
                 => \/ SubstringCI(req.query.search, posts[id].heading)
                    \/ SubstringCI(req.query.search, posts[id].description)}]_vars

\* C25: the items and the totalPosts of one List response describe the same
\* store state: totalPosts is the number of records that matched the filter
\* when the items were read (all of them are on the first page of the small
\* stores listed here), also while other requests create and delete posts.
C25_ListCountConsistent ==
  (req.op = "list" /\ req.resp.status = 200
     /\ PageOf(req.query) = 1 /\ Len(req.found) < LimitOf(req.query))
    => req.resp.pagination.totalPosts = Len(req.found)

\* C22: deleteImage never propagates a failure: whatever the URL and whether
\* the destroy takes effect or fails, it returns, and the Update or Delete
\* that awaited it goes on to its write with no answer given yet, so that its
\* answer does not depend on the cleanup; for an empty URL no call is made and
\* the asset store is left as it is.
C22_CleanupFailureSwallowed ==
  /\ \A url \in {NoImage} \cup {UrlOf(n) : n \in 1..(Len(assets) + 1)},
        done \in BOOLEAN :
       /\ DeleteImageOutcome(url, done) = "returned"
       /\ url = NoImage
            => (~DestroyCalled(url) /\ DeleteImageAssets(assets, url, done) = assets)
  /\ \A r \in Slots :
       (req[r].op \in {"update", "delete"} /\ Index(req[r].log, "destroy") # 0)
         => /\ req[r].hpc = "write"
            /\ req[r].resp.by = "catch"
                 => req[r].resp.status = CatchStatus(req[r].op)
            /\ (req[r].resp # NoResp /\ req[r].resp.by # "catch")
                 => /\ req[r].resp.status = 200
                    /\ Index(req[r].log, "update") # 0
                         \/ Index(req[r].log, "remove") # 0
                         \/ req[r].resp.post = "null"

\* A Delete answers 200 after the destroy of its image failed: the blob is
\* still stored.
C22_Witness ==
  \E r \in Slots :
    /\ req[r].op = "delete"
    /\ req[r].log = <<"destroy", "remove">>
    /\ req[r].resp.status = 200
    /\ req[r].existing # NoImage
    /\ assets[req[r].existing.name] = "stored"

\* C23: two concurrent Updates of one post, one supplying only the heading and
\* the other only the description, both take effect: once both are answered,
\* and no third request has written, the record holds the heading of the one
\* and the description of the other, in whatever order their steps ran.
C23_BothUpdatesApply ==
  \A r \in Slots, s \in Slots :
    (/\ r # s
     /\ req[r].op = "update" /\ req[s].op = "update"
     /\ req[r].id = req[s].id
     /\ req[r].resp.status = 200 /\ req[s].resp.status = 200
     /\ req[r].body.heading # Undefined /\ req[r].body.description = Undefined
     /\ req[s].body.heading = Undefined /\ req[s].body.description # Undefined
     /\ \A t \in Slots \ {r, s} : req[t].resp = FieldNoResp)
      => /\ req[r].id \in DOMAIN posts
         /\ posts[req[r].id].heading = req[r].body.heading
         /\ posts[req[r].id].description = req[s].body.description

\* Both Updates are answered; the record has the new heading of the one and
\* the new description of the other.
C23_Witness ==
  \E r \in Slots, s \in Slots :
    /\ req[r].op = "update" /\ req[s].op = "update"
    /\ req[r].id = 1 /\ req[s].id = 1
    /\ req[r].resp.status = 200 /\ req[s].resp.status = 200
    /\ req[r].body = [heading |-> Str(0, 200, 0), description |-> Undefined]
    /\ req[s].body = [heading |-> Undefined, description |-> Str(0, 11, 0)]
    /\ posts[1].heading = Str(0, 200, 0)
    /\ posts[1].description = Str(0, 11, 0)

\* C24: concurrent image-replacing Updates of one post leave no uploaded blob
\* unreferenced: when such an Update, whose own cleanup call took effect,
\* commits its new image, the blob of the image it replaces in the record is
\* no longer stored.
C24_NoOrphanAfterReplace ==
  [][\A r \in Slots :
       (/\ req[r].op = "update"
        /\ req[r].resp = NoResp
        /\ req'[r].resp.status = 200
        /\ req'[r].resp.post = "post"
        /\ req[r].file # NoImage
        /\ req[r].id \in DOMAIN posts
        /\ posts[req[r].id].image # NoImage
        /\ req[r].existing # NoImage
             => assets[req[r].existing.name] = "destroyed")
         => assets'[posts[req[r].id].image.name] = "destroyed"]_vars

\* C26: the store connection is initialised once and reused: a request that
\* finds a cached connection in the ready state calls no connect; while no
\* connect has completed, a request calls connect only if no other request's
\* connect is pending; a request whose connect fails clears the cache, is
\* answered 503 and reaches no route.
C26_ConnectOnce ==
  [][\A r \in Slots :
       /\ (req[r].pc = "connectDB" /\ cachedDb = "ready")
            => req'[r].pc # "connecting"
       /\ (req[r].pc = "connectDB" /\ req'[r].pc = "connecting" /\ cachedDb = "null")
            => \A s \in Slots \ {r} : req[s].pc # "connecting"
       /\ (req[r].pc = "connecting" /\ req'[r].status = 503)
            => (cachedDb' = "null" /\ ~req'[r].routed)]_vars

====
